---- MODULE Spec2Model ----
(***************************************************************************)
(* Model of moon-builder: MoonBuilder.CreateImages and MoonImage.getImage  *)
(* (src/src/MoonImage.ts), the case analysis over the target day's         *)
(* moonrise/moonset, the curve parameters solved by drawMoonPath and       *)
(* drawMoonOnPath, and the time-string parsing of getMinutes.              *)
(*                                                                         *)
(* One CreateImages call is modelled.  Every action is the code that runs  *)
(* between two awaits of getImage (JavaScript runs it without interleaving)*)
(*                                                                         *)
(* Times on the curve are kept in half minutes where the code divides by   *)
(* two (names ending in 2), so that all arithmetic stays in the integers.  *)
(***************************************************************************)
EXTENDS Integers, Sequences, FiniteSets, TLC

VARIABLES
    pc,                        \* position of the CreateImages/getImage call
    current, previous, next,   \* MoonJson | null returned by getMoonData
    currentMoonRiseMinutes, currentMoonSetMinutes,
    previousMoonRiseMinutes, previousMoonSetMinutes,
    nextMoonRiseMinutes, nextMoonSetMinutes,
    fetches,                   \* number of getMoonData calls issued
    raster,                    \* pure.make() has created the image
    bands,                     \* day and night bands filled on the plot
    caseTaken,                 \* branch of the case chain that was entered
    nowMinutes,                \* host clock minute-of-day read in the branch
    segments,                  \* drawMoonPath calls, in order
    pending,                   \* drawMoonOnPath call awaiting its icon
    markers,                   \* current-time markers drawn
    ticks,                     \* rise/set tick marks drawn
    encoded,                   \* jpeg.encode() was called
    result,                    \* what getImage returned
    saved,                     \* number of writer.saveFile calls
    returned,                  \* what CreateImages returned
    largeMoon,                 \* how drawMoon drew the large moon
    fn,                        \* a call of one of the pure functions
    cache,                     \* the Kache: key -> entry
    md,                        \* a getMoonData call
    clock,                     \* the time, in quarters of a day since a UTC midnight
    run,                       \* the batch of CreateImages calls of run()
    pair                       \* two CreateImages calls in flight together

vars == <<pc, current, previous, next,
          currentMoonRiseMinutes, currentMoonSetMinutes,
          previousMoonRiseMinutes, previousMoonSetMinutes,
          nextMoonRiseMinutes, nextMoonSetMinutes,
          fetches, raster, bands, caseTaken, nowMinutes, segments, pending,
          markers, ticks, encoded, result, saved, returned, largeMoon>>

\* the state of the pure-function calls and of getMoonData on its own
pureVars == <<fn>>

dataVars == <<cache, md, clock>>

batchVars == <<run>>

pairVars == <<pair>>

allVars == <<vars, pureVars, dataVars, batchVars, pairVars>>

----------------------------------------------------------------------------
(* Bounds of the model *)

\* number of well-formed "HH:MM" strings the data source may return
NumTimes == 3

----------------------------------------------------------------------------
(* Time strings.  A string is the sequence of its colon-separated fields;  *)
(* a field is a decimal integer ("07"), a decimal with a half ("1.5"), the *)
(* empty string, or some non-numeric text ("-").  A fraction occurs in the *)
(* hour field only, so that every result is a whole number of minutes.     *)

Num(n) == [kind |-> "num", val |-> n]

Half(n) == [kind |-> "half", val |-> n]

Empty == [kind |-> "empty", val |-> 0]

Text == [kind |-> "text", val |-> 0]

HM(h, m) == <<Num(h), Num(m)>>

\* the "-:-" the service sends when the event does not occur that day
Sentinel == <<Text, Text>>

\* an out-of-range time, "24:00"
Malformed == HM(24, 0)

\* a field the record lacks: the value is undefined, not a string
Undefined == <<[kind |-> "undefined", val |-> 0]>>

TimeCandidates == <<HM(6, 0), HM(0, 10), HM(23, 55), HM(18, 0), HM(1, 15)>>

ValidTimeStrs == {TimeCandidates[i] : i \in 1..NumTimes}

MoonTimeStrs == ValidTimeStrs \cup {Sentinel, Malformed}

SunriseStrs == {HM(6, 20), Sentinel}

SunsetStrs == {HM(19, 4), Malformed, Undefined}

\* readings of the host clock, new Date().getHours()*60 + getMinutes()
NowCandidates == {120, 360, 900}

----------------------------------------------------------------------------
(* null *)

Null == -1

NoJson == [isNull |-> TRUE]

MoonJson(rise, set, sunrise, sunset) ==
    [isNull |-> FALSE, moonrise |-> rise, moonset |-> set,
     sunrise |-> sunrise, sunset |-> sunset]

----------------------------------------------------------------------------
(* MoonImage.getMinutes *)

\* isNaN(Number(field)): Number("") is 0 and Number("1.5") is 1.5
IsNaN(f) == f.kind = "text"

\* twice Number(field)
Number2(f) == IF f.kind = "half" THEN 2 * f.val + 1 ELSE 2 * f.val

\* timeStr.split throws a TypeError when timeStr is not a string
getMinutesThrows(timeStr) == timeStr = Undefined

\* the mutant: the hour counted as 6 instead of 60 minutes
getMinutesHourTimes6(timeStr) ==
    IF timeStr = Sentinel THEN Null
    ELSE IF \/ Len(timeStr) < 2
            \/ IsNaN(timeStr[1])
            \/ IsNaN(timeStr[2])
            \/ Number2(timeStr[1]) < 0
            \/ Number2(timeStr[1]) > 2 * 23
            \/ Number2(timeStr[2]) < 0
            \/ Number2(timeStr[2]) > 2 * 59
         THEN Null
         ELSE (Number2(timeStr[1]) * 6 + Number2(timeStr[2])) \div 2

getMinutes(timeStr) ==
    IF timeStr = Sentinel THEN Null
    ELSE IF \/ Len(timeStr) < 2
            \/ IsNaN(timeStr[1])
            \/ IsNaN(timeStr[2])
            \/ Number2(timeStr[1]) < 0
            \/ Number2(timeStr[1]) > 2 * 23
            \/ Number2(timeStr[2]) < 0
            \/ Number2(timeStr[2]) > 2 * 59
         THEN Null
         ELSE (Number2(timeStr[1]) * 60 + Number2(timeStr[2])) \div 2

----------------------------------------------------------------------------
(* The case chain of getImage *)

Case1Cond(rise, set) == rise # Null /\ set # Null /\ rise < set

Case2Cond(rise, set) == rise # Null /\ set # Null /\ set < rise

Case3Cond(rise, set) == rise # Null /\ set = Null

Case4Cond(rise, set) == rise = Null /\ set # Null

\* the mutant: a day with neither event is drawn as a set-only day
SelectCaseNeitherDrawn(rise, set) ==
    IF Case1Cond(rise, set) THEN "Case1"
    ELSE IF Case2Cond(rise, set) THEN "Case2"
    ELSE IF Case3Cond(rise, set) THEN "Case3"
    ELSE IF rise = Null THEN "Case4"
    ELSE "fail"

\* the if / else-if chain: the first condition that holds decides
SelectCase(rise, set) ==
    IF Case1Cond(rise, set) THEN "Case1"
    ELSE IF Case2Cond(rise, set) THEN "Case2"
    ELSE IF Case3Cond(rise, set) THEN "Case3"
    ELSE IF Case4Cond(rise, set) THEN "Case4"
    ELSE "fail"

case2FudgeFactor == 50

Case2MissingNever(prevRise) == FALSE

Case2Missing(prevRise) == prevRise = Null

Case2RiseTimeNoFudge(prevRise) == prevRise - 1440

Case2RiseTime(prevRise) == prevRise - 1440 + case2FudgeFactor

Case3Missing(prevSet, nextSet) == prevSet = Null \/ nextSet = Null

Case3FirstSetTime(prevSet) == prevSet - 1440

Case3SecondSetTimeSameDay(nextSet) == nextSet

Case3SecondSetTime(nextSet) == 1440 + nextSet

MarkerOnFirstStrict(now, riseTime) == now < riseTime

MarkerOnFirst(now, riseTime) == now <= riseTime

MarkerOnSecond(now, riseTime) == now > riseTime

Case4Missing(prevRise, nextRise) == prevRise = Null \/ nextRise = Null

Case4RiseTime(prevRise) == prevRise - 1440

----------------------------------------------------------------------------
(* drawMoonPath and drawMoonOnPath: the parameters of the curve            *)
(*   y(x) = cos((x - moonPeak)/4 degrees) * amplitude - yOffset            *)

moonCyclePeriod == 24 * 60

Abs(x) == IF x < 0 THEN -x ELSE x

moonVisibleDuration(riseTime, setTime) == Abs(setTime - riseTime)

\* the mutant: the peak measured from the set time
MoonPeak2FromSet(riseTime, setTime) ==
    2 * setTime + moonVisibleDuration(riseTime, setTime)

\* twice moonPeak = riseTime + moonVisibleDuration/2
MoonPeak2(riseTime, setTime) ==
    2 * riseTime + moonVisibleDuration(riseTime, setTime)

\* twice xOffset = riseTime - (moonPeak - moonCyclePeriod/4)
XOffset2(riseTime, setTime) ==
    2 * riseTime - (MoonPeak2(riseTime, setTime) - 2 * (moonCyclePeriod \div 4))

\* y(x) = 0.  yOffset = amplitude * sin(xOffset/4 deg)
\*                    = amplitude * cos((360 - xOffset)/4 deg),
\* and cos a = cos b exactly when a = b or a = -b modulo 360 degrees, that
\* is when x - moonPeak = +/-(360 - xOffset) modulo 1440 minutes.
CurveIsZero(x, moonPeak2, xOffset2) ==
    LET a == (2 * x - moonPeak2) % (2 * 1440)
        b == 2 * 360 - xOffset2
    IN  a = b % (2 * 1440) \/ a = (-b) % (2 * 1440)

\* one drawMoonPath call
Segment(startX, endX, riseTime, setTime) ==
    [startX |-> startX, endX |-> endX, riseTime |-> riseTime, setTime |-> setTime,
     moonPeak2 |-> MoonPeak2(riseTime, setTime),
     xOffset2 |-> XOffset2(riseTime, setTime)]

\* one drawMoonOnPath call
Marker(time, riseTime, setTime) ==
    [time |-> time, riseTime |-> riseTime, setTime |-> setTime,
     moonPeak2 |-> MoonPeak2(riseTime, setTime),
     xOffset2 |-> XOffset2(riseTime, setTime)]

NoMarker == [time |-> Null]

moonPlotX == 50

moonPlotWidth == 1800

\* four times the x pixel at which drawMoonPath plots minute x
PathX4(x) == 4 * moonPlotX + (4 * x * moonPlotWidth) \div 1440

\* four times moonX, the centre of the icon drawMoonOnPath draws
MoonX4(time) == (4 * (moonPlotX + time) * moonPlotWidth) \div 1440

\* four times the centre of the circle drawMoonOnPath falls back to
CircleX4(time) == 4 * (moonPlotX + time)

\* the mutant: a failed icon load leaves nothing drawn
DrawShapeNoFallback(loaded) == IF loaded THEN "icon" ELSE "none"

\* try { decode and draw the icon } catch { draw a filled circle }
DrawShape(loaded) == IF loaded THEN "icon" ELSE "circle"

\* the marker drawMoonOnPath has drawn once its icon load has settled; its
\* y pixel is moonPlotYOrigin - y(time) with the call's curve parameters
DrawnMarker(m, loaded) ==
    [time |-> m.time, riseTime |-> m.riseTime, setTime |-> m.setTime,
     moonPeak2 |-> m.moonPeak2, xOffset2 |-> m.xOffset2,
     shape |-> DrawShape(loaded),
     x4 |-> IF loaded THEN MoonX4(m.time) ELSE CircleX4(m.time)]

----------------------------------------------------------------------------
(* MoonImage.formatTime and the label of a rise/set tick *)

\* the "" formatTime returns for a string it rejects
EmptyLabel == [hour |-> Null, minStr |-> <<>>, amPm |-> ""]

\* `${Math.floor(minutes/60)}:${minutes%60}`
LabelInput(minutes) == <<Num(minutes \div 60), Num(minutes % 60)>>

\* the mutant: noon and after is PM only from 13:00 on
formatTimePmAfter12(timeStr) ==
    IF \/ Len(timeStr) < 2
       \/ IsNaN(timeStr[1])
       \/ IsNaN(timeStr[2])
       \/ Number2(timeStr[1]) < 0
       \/ Number2(timeStr[1]) > 2 * 23
       \/ Number2(timeStr[2]) < 0
       \/ Number2(timeStr[2]) > 2 * 59
    THEN EmptyLabel
    ELSE LET h   == Number2(timeStr[1]) \div 2
             min == Number2(timeStr[2]) \div 2
         IN  [hour   |-> IF h % 12 = 0 THEN 12 ELSE h % 12,
              minStr |-> IF min < 10 THEN <<0, min>> ELSE <<min \div 10, min % 10>>,
              amPm   |-> IF h > 12 THEN "PM" ELSE "AM"]

\* `${hour}:${minStr} ${amPmStr}`, as its three parts; minStr as its digits
formatTime(timeStr) ==
    IF \/ Len(timeStr) < 2
       \/ IsNaN(timeStr[1])
       \/ IsNaN(timeStr[2])
       \/ Number2(timeStr[1]) < 0
       \/ Number2(timeStr[1]) > 2 * 23
       \/ Number2(timeStr[2]) < 0
       \/ Number2(timeStr[2]) > 2 * 59
    THEN EmptyLabel
    ELSE LET h   == Number2(timeStr[1]) \div 2
             min == Number2(timeStr[2]) \div 2
         IN  [hour   |-> IF h % 12 = 0 THEN 12 ELSE h % 12,
              minStr |-> IF min < 10 THEN <<0, min>> ELSE <<min \div 10, min % 10>>,
              amPm   |-> IF h > 11 THEN "PM" ELSE "AM"]

----------------------------------------------------------------------------
(* MoonData.getMoonAgeDays.  Days are kept exactly, as pairs <<hi, lo>>    *)
(* that stand for hi * Base + lo units of 1/900 000 000 000 day, with      *)
(* 0 <= lo < Base: the unit divides both the period's last decimal and a   *)
(* minute of timezone offset.                                              *)

Base == 1000 * 1000

\* one day, and one minute, in units of Base
DayUnits == 900 * 1000

MIN_PER_DAY == 24 * 60

MinuteUnits == DayUnits \div MIN_PER_DAY

\* 29.53058770576 days
MOON_PERIOD_DAYS == <<26577528, 935184>>

\* 2440587.5 and 2451550.1, in tenths of a day
UNIX_EPOCH10 == 24405875

LUNAR_REFERENCE10 == 24515501

Norm(x) == <<x[1] + (x[2] \div Base), x[2] % Base>>

Plus(x, y) == Norm(<<x[1] + y[1], x[2] + y[2]>>)

Minus(x, y) == Norm(<<x[1] - y[1], x[2] - y[2]>>)

Times(k, x) == Norm(<<k * x[1], k * x[2]>>)

IsNegative(x) == x[1] < 0

LessThan(x, y) == x[1] < y[1] \/ (x[1] = y[1] /\ x[2] < y[2])

\* the largest quotient a date of the model needs
MaxDays == 40

MaxQuotient == MaxDays \div 29 + 1

\* x % y of JavaScript, for y > 0: x - y * trunc(x / y), of the sign of x
JsRemainder(x, y) ==
    LET mag == IF IsNegative(x) THEN Minus(<<0, 0>>, x) ELSE x
        q   == CHOOSE k \in 0..MaxQuotient :
                   /\ ~LessThan(mag, Times(k, y))
                   /\ LessThan(mag, Times(k + 1, y))
        r   == Minus(mag, Times(q, y))
    IN  IF IsNegative(x) THEN Minus(<<0, 0>>, r) ELSE r

\* julianDate - LUNAR_REFERENCE, for the date epochDays days after
\* 1970-01-01 (new Date(dateStr) is midnight UTC of the date) on a host
\* whose getTimezoneOffset() is offsetMinutes
JulianSinceReference(epochDays, offsetMinutes) ==
    LET tenths == 10 * epochDays + UNIX_EPOCH10 - LUNAR_REFERENCE10
    IN  Norm(<<tenths * (DayUnits \div 10) - offsetMinutes * MinuteUnits, 0>>)

\* if (ageDays < 0) ageDays++
getMoonAgeDays(epochDays, offsetMinutes) ==
    LET ageDays == JsRemainder(JulianSinceReference(epochDays, offsetMinutes),
                               MOON_PERIOD_DAYS)
    IN  IF IsNegative(ageDays) THEN Plus(ageDays, <<DayUnits, 0>>) ELSE ageDays

\* 2000-01-07, the first midnight UTC after the lunar reference
ReferenceDay == 10963

\* the dates of the model and the hosts' getTimezoneOffset()
DateDays == (ReferenceDay - MaxDays)..(ReferenceDay + MaxDays)

HostOffsets == {0, 300, -540}

----------------------------------------------------------------------------
(* The functions of the lunar age.  An age is a whole number of steps of   *)
(* period/AgeSteps: the sixteenths of the period and the half degrees of   *)
(* the illumination angle are whole steps.                                 *)

AgeSteps == 16 * 45

Ages == 0..(AgeSteps - 1)

\* Math.cos at 0, 0.5, 1, ... 90 degrees, in millionths
CosTable ==
   <<
     1000000, 999962, 999848, 999657, 999391, 999048, 998630, 998135,
     997564, 996917, 996195, 995396, 994522, 993572, 992546, 991445,
     990268, 989016, 987688, 986286, 984808, 983255, 981627, 979925,
     978148, 976296, 974370, 972370, 970296, 968148, 965926, 963630,
     961262, 958820, 956305, 953717, 951057, 948324, 945519, 942641,
     939693, 936672, 933580, 930418, 927184, 923880, 920505, 917060,
     913545, 909961, 906308, 902585, 898794, 894934, 891007, 887011,
     882948, 878817, 874620, 870356, 866025, 861629, 857167, 852640,
     848048, 843391, 838671, 833886, 829038, 824126, 819152, 814116,
     809017, 803857, 798636, 793353, 788011, 782608, 777146, 771625,
     766044, 760406, 754710, 748956, 743145, 737277, 731354, 725374,
     719340, 713250, 707107, 700909, 694658, 688355, 681998, 675590,
     669131, 662620, 656059, 649448, 642788, 636078, 629320, 622515,
     615661, 608761, 601815, 594823, 587785, 580703, 573576, 566406,
     559193, 551937, 544639, 537300, 529919, 522499, 515038, 507538,
     500000, 492424, 484810, 477159, 469472, 461749, 453990, 446198,
     438371, 430511, 422618, 414693, 406737, 398749, 390731, 382683,
     374607, 366501, 358368, 350207, 342020, 333807, 325568, 317305,
     309017, 300706, 292372, 284015, 275637, 267238, 258819, 250380,
     241922, 233445, 224951, 216440, 207912, 199368, 190809, 182236,
     173648, 165048, 156434, 147809, 139173, 130526, 121869, 113203,
     104528, 95846, 87156, 78459, 69756, 61049, 52336, 43619,
     34899, 26177, 17452, 8727, 0
   >>

\* Math.cos of j half degrees, in millionths
CosHalfDegrees(j) ==
    LET a == j % 720
        b == IF a > 360 THEN 720 - a ELSE a
    IN  IF b <= 180 THEN CosTable[b + 1] ELSE -CosTable[360 - b + 1]

\* x.toFixed(0) for x >= 0 given in millionths
ToFixed0(x) == (x + 500000) \div 1000000

\* the mutant: the phase of 180 degrees left out
getMoonIlluminationNoPhase(ageDays) ==
    LET illumination == 50 * 1000000
                          + 50 * CosHalfDegrees((ageDays * 720) \div AgeSteps)
    IN  [digits |-> ToFixed0(illumination), unit |-> "%"]

\* `${illumination.toFixed(0)}%`
getMoonIllumination(ageDays) ==
    LET illumination == 50 * 1000000
                          + 50 * CosHalfDegrees((ageDays * 720) \div AgeSteps + 360)
    IN  [digits |-> ToFixed0(illumination), unit |-> "%"]

phaseLength == AgeSteps \div 16

getWaxWane(ageDays) ==
    IF ageDays < AgeSteps \div 2 THEN "waxing" ELSE "waning"

getPhaseStr(ageDays) ==
    IF ageDays < phaseLength THEN "New Moon"
    ELSE IF ageDays < phaseLength * 3 THEN "Waxing Crescent"
    ELSE IF ageDays < phaseLength * 5 THEN "First Quarter"
    ELSE IF ageDays < phaseLength * 7 THEN "Waxing Gibbous"
    ELSE IF ageDays < phaseLength * 9 THEN "Full Moon"
    ELSE IF ageDays < phaseLength * 11 THEN "Waning Gibbus"
    ELSE IF ageDays < phaseLength * 13 THEN "Last Quarter"
    ELSE IF ageDays < phaseLength * 15 THEN "Waning Crescent"
    ELSE "New Moon"

getMoonImageForAge(ageDays) ==
    IF ageDays < phaseLength THEN "new-moon.png"
    ELSE IF ageDays < phaseLength * 3 THEN "waxing-crescent.png"
    ELSE IF ageDays < phaseLength * 5 THEN "first-quarter.png"
    ELSE IF ageDays < phaseLength * 7 THEN "waxing-gibbous"
    ELSE IF ageDays < phaseLength * 9 THEN "full-moon.png"
    ELSE IF ageDays < phaseLength * 11 THEN "waning-crescent.png"
    ELSE IF ageDays < phaseLength * 13 THEN "last-quarter.png"
    ELSE IF ageDays < phaseLength * 15 THEN "waning-crescent.png"
    ELSE "new-moon.png"

----------------------------------------------------------------------------
(* The dates getImage asks records for.  A date string is the number of   *)
(* its day since 1970-01-01, an instant a number of minutes since then.   *)

\* dateStr === ""
NoDateStr == -1

\* the utcOffset of the target time zones, in minutes
TargetUtcOffsets == {0, -300, 540}

\* the instants moment() may read
NowInstants == {ReferenceDay * MIN_PER_DAY + m : m \in {30, 720, 1410}}

\* moment(dateStr): midnight of the date in the zone of the host, whose
\* getTimezoneOffset() is offsetMinutes
MomentOf(dateStr, offsetMinutes) == dateStr * MIN_PER_DAY + offsetMinutes

\* m.tz(timeZone).format("YYYY-MM-DD")
TzFormat(instant, utcOffset) == (instant + utcOffset) \div MIN_PER_DAY

\* prevDate.tz(timeZone).subtract(1, "day").format("YYYY-MM-DD")
PrevDateStr(dateStr, offsetMinutes, utcOffset) ==
    TzFormat(MomentOf(dateStr, offsetMinutes) - MIN_PER_DAY, utcOffset)

\* nextDate.tz(timeZone).add(1, "day").format("YYYY-MM-DD")
NextDateStr(dateStr, offsetMinutes, utcOffset) ==
    TzFormat(MomentOf(dateStr, offsetMinutes) + MIN_PER_DAY, utcOffset)

\* the dates of the three getMoonData calls of getImage
GetImageDates(dateStr, now, offsetMinutes, utcOffset) ==
    LET date == IF dateStr = NoDateStr THEN TzFormat(now, utcOffset) ELSE dateStr
    IN  <<date, PrevDateStr(date, offsetMinutes, utcOffset),
          NextDateStr(date, offsetMinutes, utcOffset)>>

----------------------------------------------------------------------------
(* Calls of the pure functions on their own *)

NoCall == [op |-> "none"]

PureInit == fn = NoCall

\* every "HH:MM" with the hour in 0..23 and the minute in 0..59
WellFormedTimeStrs == {HM(h, m) : h \in 0..23, m \in 0..59}

\* strings that are no in-range "HH:MM": "-:-", "x:30", "12:x", "5", ":",
\* "5:", "1.5:30", "24:00", "12:60", "-1:30", "12:30:45", and no string
OtherTimeStrs ==
    {Sentinel, <<Text, Num(30)>>, <<Num(12), Text>>, <<Num(5)>>,
     <<Empty, Empty>>, <<Num(5), Empty>>, <<Half(1), Num(30)>>,
     HM(24, 0), HM(12, 60), HM(-1, 30), <<Num(12), Num(30), Num(45)>>,
     Undefined}

CallGetMinutes ==
    /\ fn = NoCall
    /\ \E timeStr \in WellFormedTimeStrs \cup OtherTimeStrs :
        fn' = [op |-> "getMinutes", in |-> timeStr,
               threw |-> getMinutesThrows(timeStr),
               out |-> IF getMinutesThrows(timeStr) THEN Null ELSE getMinutes(timeStr)]

CallFormatTime ==
    /\ fn = NoCall
    /\ \E minutes \in 0..1439 :
        fn' = [op |-> "label", in |-> minutes, out |-> formatTime(LabelInput(minutes))]

CallGetMoonAgeDays ==
    /\ fn = NoCall
    /\ \E epochDays \in DateDays, offsetMinutes \in HostOffsets :
        fn' = [op |-> "getMoonAgeDays",
               in |-> <<epochDays, offsetMinutes>>,
               out |-> getMoonAgeDays(epochDays, offsetMinutes)]

CallGetMoonIllumination ==
    /\ fn = NoCall
    /\ \E ageDays \in Ages :
        fn' = [op |-> "getMoonIllumination", in |-> ageDays,
               out |-> getMoonIllumination(ageDays)]

CallGetPhaseStr ==
    /\ fn = NoCall
    /\ \E ageDays \in Ages :
        fn' = [op |-> "getPhaseStr", in |-> ageDays, out |-> getPhaseStr(ageDays)]

CallGetMoonImageForAge ==
    /\ fn = NoCall
    /\ \E ageDays \in Ages :
        fn' = [op |-> "getMoonImageForAge", in |-> ageDays,
               out |-> getMoonImageForAge(ageDays)]

\* the three fillRect calls that shade the plot, in order: four times the x
\* pixel and four times the width of each
ShadingBands(sunriseMinutes, sunsetMinutes) ==
    LET sunriseX4 == (4 * sunriseMinutes * moonPlotWidth) \div 1440
        sunsetX4  == (4 * sunsetMinutes * moonPlotWidth) \div 1440
    IN  <<[color |-> "nighttime", x4 |-> 4 * moonPlotX, w4 |-> sunriseX4],
          [color |-> "daytime", x4 |-> 4 * moonPlotX + sunriseX4,
           w4 |-> (4 * (sunsetMinutes - sunriseMinutes) * moonPlotWidth) \div 1440],
          [color |-> "nighttime", x4 |-> 4 * moonPlotX + sunsetX4,
           w4 |-> (4 * (1440 - sunsetMinutes) * moonPlotWidth) \div 1440]>>

\* sunrise and sunset minutes of the day, the sunset before the sunrise too
SunMinutes == {0, 10, 170, 380, 720, 1144, 1439}

CallShadingBands ==
    /\ fn = NoCall
    /\ \E sunriseMinutes \in SunMinutes, sunsetMinutes \in SunMinutes :
        fn' = [op |-> "shadingBands",
               in |-> <<sunriseMinutes, sunsetMinutes>>,
               out |-> ShadingBands(sunriseMinutes, sunsetMinutes)]

CallGetImageDates ==
    /\ fn = NoCall
    /\ \E dateStr \in DateDays \cup {NoDateStr}, now \in NowInstants,
          offsetMinutes \in HostOffsets, utcOffset \in TargetUtcOffsets :
        fn' = [op |-> "getImageDates",
               in |-> <<dateStr, now, offsetMinutes, utcOffset>>,
               out |-> GetImageDates(dateStr, now, offsetMinutes, utcOffset)]

\* the call is over; the functions keep no state
ReturnPure ==
    /\ fn # NoCall
    /\ fn' = NoCall

----------------------------------------------------------------------------
(* MoonData.getMoonData and the Kache it is given *)

\* the latest quarter of a day the clock reaches
MaxClock == 2

QuartersPerDay == 4

Lats == {"42.4", "41.65"}

Lons == {"-71.6"}

DateStrs == {"1999-12-25", "2000-01-08"}

\* the target time zones, as offsets from UTC in quarters of a day
TimeZones == {0, -1}

\* new Date(dateStr) in days since the Unix epoch
DayOf(dateStr) ==
    CASE dateStr = "1999-12-25" -> ReferenceDay - 13
      [] dateStr = "2000-01-07" -> ReferenceDay
      [] dateStr = "2000-01-08" -> ReferenceDay + 1
      [] dateStr = "2000-01-09" -> ReferenceDay + 2
      [] dateStr = "2000-01-10" -> ReferenceDay + 3

\* `lat:${lat}-lon:${lon}-date:${dateStr}`
CacheKey(lat, lon, dateStr) == <<"lat:", lat, "-lon:", lon, "-date:", dateStr>>

\* the (lat, lon, date) that getMoonData is called with
Targets ==
    {t \in Lats \X Lons \X DateStrs : t[1] = "42.4" \/ t[3] = "1999-12-25"}

\* four days in a row, for calls whose neighbour days overlap
PairDates == <<"2000-01-07", "2000-01-08", "2000-01-09", "2000-01-10">>

Keys ==
    {CacheKey(t[1], t[2], t[3]) : t \in Targets}
        \cup {CacheKey(lat, lon, PairDates[i]) :
                 lat \in Lats, lon \in Lons, i \in DOMAIN PairDates}

\* moment().tz(timeZone).endOf("day"): the end of the local day of now
EndOfDay(now, timeZone) ==
    ((now + timeZone) \div QuartersPerDay + 1) * QuartersPerDay - timeZone

NoItem == [item |-> NoJson, expiration |-> 0]

\* Kache.get: the item stored under the key if it has not expired, else null
KacheGet(c, key, now) ==
    IF c[key].item.isNull \/ c[key].expiration <= now THEN NoJson ELSE c[key].item

\* Kache.set: the item replaces what the key held
KacheSet(c, key, item, expiration) ==
    [c EXCEPT ![key] = [item |-> item, expiration |-> expiration]]

\* MOON_PERIOD_DAYS / 16
PhaseUnits == <<1661095, 558449>>

\* an age as a whole number of steps of period/AgeSteps, rounded down
AgeToSteps(age) ==
    LET b == CHOOSE b \in (-17)..16 :
                 /\ ~LessThan(age, Times(b, PhaseUnits))
                 /\ LessThan(age, Times(b + 1, PhaseUnits))
        r == Times(45, Minus(age, Times(b, PhaseUnits)))
        j == CHOOSE j \in 0..44 :
                 /\ ~LessThan(r, Times(j, PhaseUnits))
                 /\ LessThan(r, Times(j + 1, PhaseUnits))
    IN  45 * b + j

\* a body that is no JSON object: axios leaves it a string
TextBody == [isNull |-> FALSE, text |-> TRUE]

\* the bodies of a response of the service: a record, the body null and
\* a body that is not JSON
ResponseData ==
    {MoonJson(HM(10, 22), HM(21, 11), HM(6, 20), HM(19, 4)), NoJson, TextBody}

\* the lunar fields can be assigned to res.data and its moonrise read
IsObject(data) == "moonrise" \in DOMAIN data

\* res.data with the four lunar fields assigned; the illumination is taken
\* at the age rounded down to a step
FillLunar(data, dateStr, offsetMinutes) ==
    LET lunarAgeDays == getMoonAgeDays(DayOf(dateStr), offsetMinutes)
        steps == AgeToSteps(lunarAgeDays)
    IN  [isNull |-> FALSE, moonrise |-> data.moonrise, moonset |-> data.moonset,
         sunrise |-> data.sunrise, sunset |-> data.sunset,
         lunarAgeDays |-> lunarAgeDays,
         lunarIllumination |-> getMoonIllumination(steps),
         lunarWaxWane |-> getWaxWane(steps),
         lunarPhase |-> getPhaseStr(steps)]

NoRequest ==
    [pc |-> "idle", key |-> <<>>, dateStr |-> "", timeZone |-> 0,
     events |-> <<>>, out |-> NoJson]

\* the mutant: the cached record is never taken
CacheHitNever(sunMoonJson) == FALSE

\* sunMoonJson !== null after cache.get
CacheHit(sunMoonJson) == ~sunMoonJson.isNull

\* getMoonData up to its return of the cached record or to the await of
\* axios.get
GetMoonData ==
    /\ md.pc = "idle"
    /\ \E t \in Targets, timeZone \in TimeZones :
        LET dateStr == t[3]
            key == CacheKey(t[1], t[2], dateStr)
            sunMoonJson == KacheGet(cache, key, clock)
        IN  IF CacheHit(sunMoonJson)
            THEN md' = [pc |-> "returned", key |-> key, dateStr |-> dateStr,
                        timeZone |-> timeZone, events |-> <<"cache.get">>,
                        out |-> sunMoonJson]
            ELSE md' = [pc |-> "awaiting", key |-> key, dateStr |-> dateStr,
                        timeZone |-> timeZone,
                        events |-> <<"cache.get", "axios.get">>, out |-> NoJson]
    /\ UNCHANGED <<cache, clock>>

\* axios.get resolves: .then assigns res.data to sunMoonJson and then the
\* lunar fields; a body that is no object throws there after the
\* assignment and is logged by .catch.  What is not null is cached until
\* midnight and returned
Resolved ==
    /\ md.pc = "awaiting"
    /\ \E data \in ResponseData, offsetMinutes \in HostOffsets :
        IF data.isNull
        THEN /\ md' = [md EXCEPT !.pc = "returned",
                                 !.events = @ \o <<".then", ".catch">>,
                                 !.out = NoJson]
             /\ cache' = cache
        ELSE LET sunMoonJson == IF IsObject(data)
                                THEN FillLunar(data, md.dateStr, offsetMinutes)
                                ELSE data
                 handlers == IF IsObject(data) THEN <<".then">>
                             ELSE <<".then", ".catch">>
             IN  /\ cache' = KacheSet(cache, md.key, sunMoonJson,
                                      EndOfDay(clock, md.timeZone))
                 /\ md' = [md EXCEPT !.pc = "returned",
                                     !.events = @ \o handlers \o <<"cache.set">>,
                                     !.out = sunMoonJson]
    /\ UNCHANGED clock

\* axios.get rejects (an error status, no connection, the 20 s timeout):
\* .catch logs and null is returned
Rejected ==
    /\ md.pc = "awaiting"
    /\ md' = [md EXCEPT !.pc = "returned", !.events = Append(@, ".catch"),
                        !.out = NoJson]
    /\ UNCHANGED <<cache, clock>>

\* the caller has the result
ReturnData ==
    /\ md.pc = "returned"
    /\ md' = NoRequest
    /\ UNCHANGED <<cache, clock>>

\* a quarter of a day passes
Tick ==
    /\ clock < MaxClock
    /\ clock' = clock + 1
    /\ UNCHANGED <<cache, md>>

----------------------------------------------------------------------------
(* run(): the batch of CreateImages calls, and CreateImages around getImage *)

\* the number of `success = success && await moonBuilder.CreateImages(...)`
\* statements of run()
BatchSize == 6

\* how getImage settles: an image, an image without data, null, or a throw
GetImageResults == {"image", "noImageData", "null", "throws"}

\* the mutant: CreateImages without its try / catch
CreateImagesReturnsNoCatch(imageResult, saveFileThrows) ==
    IF imageResult = "throws" \/ saveFileThrows THEN "throws"
    ELSE IF imageResult = "image" THEN "true"
    ELSE "false"

\* what CreateImages returns once getImage has settled: the catch turns
\* every throw of getImage and of saveFile into false
CreateImagesReturns(imageResult, saveFileThrows) ==
    IF imageResult = "throws" \/ saveFileThrows THEN "false"
    ELSE IF imageResult = "image" THEN "true"
    ELSE "false"

\* the number of saveFile calls CreateImages makes for a imageResult
SaveFileCalls(imageResult) == IF imageResult = "image" THEN 1 ELSE 0

NotCalled ==
    [called |-> FALSE, result |-> "none", saveFileCalls |-> 0,
     saveFileThrows |-> FALSE, returned |-> "none"]

BatchInit ==
    run = [pc |-> "statement", i |-> 1, success |-> TRUE, outcomes |-> <<>>]

\* statement i of run(): CreateImages is called when success is still true
\* and runs up to its await of getImage; else && leaves it out
RunStatement ==
    /\ run.pc = "statement"
    /\ run.i <= BatchSize
    /\ IF run.success
       THEN run' = [run EXCEPT !.pc = "getImage"]
       ELSE run' = [run EXCEPT !.i = @ + 1, !.outcomes = Append(@, NotCalled)]

\* getImage settles; CreateImages saves the image or warns, catches what
\* was thrown and returns; run() takes the imageResult into success
GetImageSettles ==
    /\ run.pc = "getImage"
    /\ \E imageResult \in GetImageResults, saveFileThrows \in BOOLEAN :
        /\ (saveFileThrows => imageResult = "image")
        /\ LET answer == CreateImagesReturns(imageResult, saveFileThrows)
           IN  run' = [pc |-> IF answer = "throws" THEN "rejected" ELSE "statement",
                       i |-> run.i + 1,
                       success |-> (run.success /\ answer = "true"),
                       outcomes |-> Append(run.outcomes,
                           [called |-> TRUE, result |-> imageResult,
                            saveFileCalls |-> SaveFileCalls(imageResult),
                            saveFileThrows |-> saveFileThrows,
                            returned |-> answer])]

\* run() logs the end of the batch and returns
RunDone ==
    /\ run.pc = "statement"
    /\ run.i > BatchSize
    /\ run' = [run EXCEPT !.pc = "done"]

----------------------------------------------------------------------------
(* Two CreateImages calls of one MoonBuilder, interleaved at their awaits.  *)
(* Each call has its own MoonImage, MoonData, image and local variables;    *)
(* the Kache of the MoonBuilder is shared.                                   *)

\* what getImage does with three records and a reading of the clock: its
\* result, the case, the paths and the marker positions
RenderOutcome(cur, prev, nxt, now) ==
    LET rise     == getMinutes(cur.moonrise)
        set      == getMinutes(cur.moonset)
        prevRise == getMinutes(prev.moonrise)
        prevSet  == getMinutes(prev.moonset)
        nextRise == getMinutes(nxt.moonrise)
        nextSet  == getMinutes(nxt.moonset)
        c        == SelectCase(rise, set)
        failed   == [result |-> "null", caseTaken |-> c,
                     segments |-> <<>>, markers |-> <<>>]
        single(riseTime, setTime) ==
            [result |-> "image", caseTaken |-> c,
             segments |-> <<Segment(0, 1440, riseTime, setTime)>>,
             markers |-> <<Marker(now, riseTime, setTime)>>]
        double(riseTime) ==
            LET first  == Case3FirstSetTime(prevSet)
                second == Case3SecondSetTime(nextSet)
            IN  [result |-> "image", caseTaken |-> c,
                 segments |-> <<Segment(0, riseTime, riseTime, first),
                                Segment(riseTime, 1440, riseTime, second)>>,
                 markers |-> IF MarkerOnFirst(now, riseTime)
                             THEN <<Marker(now, riseTime, first)>>
                             ELSE IF MarkerOnSecond(now, riseTime)
                             THEN <<Marker(now, riseTime, second)>>
                             ELSE <<>>]
    IN  IF getMinutesThrows(cur.sunrise) \/ getMinutesThrows(cur.sunset)
        THEN [result |-> "throws", caseTaken |-> "unset",
              segments |-> <<>>, markers |-> <<>>]
        ELSE IF getMinutes(cur.sunrise) = Null \/ getMinutes(cur.sunset) = Null
        THEN [result |-> "null", caseTaken |-> "unset",
              segments |-> <<>>, markers |-> <<>>]
        ELSE CASE c = "Case1" -> single(rise, set)
               [] c = "Case2" -> IF Case2Missing(prevRise) THEN failed
                                 ELSE single(Case2RiseTime(prevRise), set)
               [] c = "Case3" -> IF Case3Missing(prevSet, nextSet) THEN failed
                                 ELSE double(rise)
               [] c = "Case4" -> IF Case4Missing(prevRise, nextRise) THEN failed
                                 ELSE single(Case4RiseTime(prevRise), set)
               [] OTHER -> failed

\* getImage returned null because a getMoonData call returned null
FetchFailure ==
    [result |-> "null", caseTaken |-> "unset", segments |-> <<>>, markers |-> <<>>]

CallIds == {1, 2}

\* the (lat, day) of a call; the day is a position in PairDates that has
\* both neighbours
PairTargets == {<<"42.4", 2>>, <<"42.4", 3>>, <<"41.65", 2>>}

\* the days of the three getMoonData calls of getImage, in order: the
\* target day, the day before, the day after
FetchDay(target, k) == target[2] + <<0, -1, 1>>[k]

\* the mutant: the key of a request has one date for every day
FetchKeyNoDate(target, k) == CacheKey(target[1], "-71.6", PairDates[1])

FetchKey(target, k) == CacheKey(target[1], "-71.6", PairDates[FetchDay(target, k)])

\* the moon times the service has for a place and day: its answers are a
\* function of the request
SourceData(lat, day) ==
    LET times == <<<<HM(23, 55), HM(6, 0)>>, <<Sentinel, HM(18, 0)>>,
                   <<HM(0, 10), Sentinel>>, <<HM(1, 15), HM(18, 0)>>>>
        t == times[IF lat = "42.4" THEN day ELSE (day % 4) + 1]
    IN  MoonJson(t[1], t[2], HM(6, 20), HM(19, 4))

\* the record getMoonData makes of the service's answer
SourceRecord(target, k) ==
    FillLunar(SourceData(target[1], FetchDay(target, k)),
              PairDates[FetchDay(target, k)], 0)

\* no call is made yet; failing is the key whose request the service
\* rejects, or <<>>
PairInit == pair = [pc |-> "idle", failing |-> <<>>, calls |-> <<>>]

NewCall(target) ==
    [target |-> target, pc |-> "getMoonData", k |-> 1, got |-> <<>>,
     hits |-> 0, now |-> Null,
     outcome |-> [result |-> "none", caseTaken |-> "unset",
                  segments |-> <<>>, markers |-> <<>>],
     saved |-> 0,
     returned |-> "none"]

\* two CreateImages calls are made for different targets; each runs up to
\* its first await
StartPair ==
    /\ pair.pc = "idle"
    /\ \E t1 \in PairTargets, t2 \in PairTargets :
       \E failing \in {FetchKey(t, k) : t \in {t1, t2}, k \in 1..3} \cup {<<>>} :
        /\ t1 # t2
        /\ pair' = [pc |-> "running", failing |-> failing,
                    calls |-> <<NewCall(t1), NewCall(t2)>>]
    /\ UNCHANGED dataVars

\* a call has the record of its k-th getMoonData: the next one, or on to
\* the drawing
Received(call, sunMoonJson, hit) ==
    [call EXCEPT !.got = Append(@, sunMoonJson),
                 !.hits = @ + (IF hit THEN 1 ELSE 0),
                 !.k = @ + 1,
                 !.pc = IF call.k = 3 THEN "drawMoon" ELSE "getMoonData"]

\* getMoonData of a call up to its return of the cached record or to the
\* await of axios.get
PairGetMoonData ==
    /\ pair.pc = "running"
    /\ \E id \in CallIds :
        LET call == pair.calls[id]
            sunMoonJson == KacheGet(cache, FetchKey(call.target, call.k), clock)
        IN  /\ call.pc = "getMoonData"
            /\ pair' = [pair EXCEPT !.calls[id] =
                            IF CacheHit(sunMoonJson)
                            THEN Received(call, sunMoonJson, TRUE)
                            ELSE [call EXCEPT !.pc = "awaiting"]]
    /\ UNCHANGED dataVars

\* axios.get of a call resolves: the record is cached and returned
PairResolved ==
    /\ pair.pc = "running"
    /\ \E id \in CallIds :
        LET call == pair.calls[id]
            key == FetchKey(call.target, call.k)
            sunMoonJson == SourceRecord(call.target, call.k)
        IN  /\ call.pc = "awaiting"
            /\ key # pair.failing
            /\ cache' = KacheSet(cache, key, sunMoonJson, EndOfDay(clock, 0))
            /\ pair' = [pair EXCEPT !.calls[id] = Received(call, sunMoonJson, FALSE)]
    /\ UNCHANGED <<md, clock>>

\* axios.get of a call rejects: getMoonData returns null and so does
\* getImage
PairRejected ==
    /\ pair.pc = "running"
    /\ \E id \in CallIds :
        LET call == pair.calls[id]
        IN  /\ call.pc = "awaiting"
            /\ FetchKey(call.target, call.k) = pair.failing
            /\ pair' = [pair EXCEPT !.calls[id] =
                            [call EXCEPT !.pc = "returned", !.outcome = FetchFailure]]
    /\ UNCHANGED dataVars

\* drawMoon of a call is over: the clock is read in the case branch and
\* the image drawn on the call's own raster
PairRender ==
    /\ pair.pc = "running"
    /\ \E id \in CallIds, now \in NowCandidates :
        LET call == pair.calls[id]
        IN  /\ call.pc = "drawMoon"
            /\ pair' = [pair EXCEPT !.calls[id] =
                            [call EXCEPT !.pc = "returned", !.now = now,
                                         !.outcome = RenderOutcome(call.got[1],
                                                        call.got[2], call.got[3], now)]]
    /\ UNCHANGED dataVars

\* CreateImages of a call after getImage
PairSaveOrWarn ==
    /\ pair.pc = "running"
    /\ \E id \in CallIds :
        LET call == pair.calls[id]
        IN  /\ call.pc = "returned"
            /\ pair' = [pair EXCEPT !.calls[id] =
                            [call EXCEPT !.pc = "done",
                                         !.saved = SaveFileCalls(call.outcome.result),
                                         !.returned = CreateImagesReturns(
                                                          call.outcome.result, FALSE)]]
    /\ UNCHANGED dataVars

\* the outcome of a call that runs alone, from an empty cache, against the
\* same service and the same reading of the clock
AloneOutcome(target, failing, now) ==
    IF \E k \in 1..3 : CacheKey(target[1], "-71.6", PairDates[FetchDay(target, k)]) = failing
    THEN FetchFailure
    ELSE RenderOutcome(SourceRecord(target, 1), SourceRecord(target, 2),
                       SourceRecord(target, 3), now)

NextPair ==
    \/ StartPair /\ UNCHANGED <<vars, pureVars, batchVars>>
    \/ PairGetMoonData /\ UNCHANGED <<vars, pureVars, batchVars>>
    \/ PairResolved /\ UNCHANGED <<vars, pureVars, batchVars>>
    \/ PairRejected /\ UNCHANGED <<vars, pureVars, batchVars>>
    \/ PairRender /\ UNCHANGED <<vars, pureVars, batchVars>>
    \/ PairSaveOrWarn /\ UNCHANGED <<vars, pureVars, batchVars>>

----------------------------------------------------------------------------
(* The state after construction of MoonBuilder and before CreateImages *)

DataInit ==
    /\ cache = [key \in Keys |-> NoItem]
    /\ md = NoRequest
    /\ clock = 0

Init ==
    /\ pc = "idle"
    /\ current = NoJson
    /\ previous = NoJson
    /\ next = NoJson
    /\ currentMoonRiseMinutes = Null
    /\ currentMoonSetMinutes = Null
    /\ previousMoonRiseMinutes = Null
    /\ previousMoonSetMinutes = Null
    /\ nextMoonRiseMinutes = Null
    /\ nextMoonSetMinutes = Null
    /\ fetches = 0
    /\ raster = FALSE
    /\ bands = <<>>
    /\ caseTaken = "unset"
    /\ nowMinutes = Null
    /\ segments = <<>>
    /\ pending = NoMarker
    /\ markers = <<>>
    /\ ticks = {}
    /\ encoded = FALSE
    /\ result = "none"
    /\ saved = 0
    /\ returned = "none"
    /\ largeMoon = "none"
    /\ PureInit
    /\ DataInit
    /\ BatchInit
    /\ PairInit

\* what getMoonData may resolve to: a record of the service, or null
CurrentJsons ==
    {MoonJson(r, s, sr, ss) :
        r \in MoonTimeStrs, s \in MoonTimeStrs, sr \in SunriseStrs, ss \in SunsetStrs}

NeighbourJsons ==
    {MoonJson(r, s, HM(6, 20), HM(19, 4)) : r \in MoonTimeStrs, s \in MoonTimeStrs}

\* getImage returns null: nothing further is drawn, encoded or fetched
ReturnNull ==
    /\ result' = "null"
    /\ pc' = "returned"

\* the mutant: only the moonrise gets its tick
EventTimesRiseOnly(rise, set) == {m \in {rise} : m # Null}

\* the times of the current day that get a tick and a label
EventTimes(rise, set) == {m \in {rise, set} : m # Null}

\* drawChartLine at scaledX and the label centred on it: four times the x
\* pixel, and the text
TickMark(minute) ==
    [minute |-> minute,
     x4 |-> 4 * moonPlotX + (4 * minute * moonPlotWidth) \div 1440,
     label |-> formatTime(LabelInput(minute))]

\* the ticks at the current day's events, jpeg.encode and the return
Finish ==
    /\ ticks' = {TickMark(m) :
                    m \in EventTimes(currentMoonRiseMinutes, currentMoonSetMinutes)}
    /\ encoded' = TRUE
    /\ result' = "image"
    /\ pc' = "returned"

\* CreateImages up to the first await of getImage
CreateImages ==
    /\ pc = "idle"
    /\ pc' = "getCurrent"
    /\ fetches' = fetches + 1
    /\ UNCHANGED <<pureVars, dataVars, batchVars, pairVars>>
    /\ UNCHANGED <<current, previous, next,
                   currentMoonRiseMinutes, currentMoonSetMinutes,
                   previousMoonRiseMinutes, previousMoonSetMinutes,
                   nextMoonRiseMinutes, nextMoonSetMinutes,
                   raster, bands, caseTaken, nowMinutes, segments, pending,
                   markers, ticks, encoded, result, saved, returned, largeMoon>>

\* the current day's getMoonData resolves
FetchCurrent ==
    /\ pc = "getCurrent"
    /\ \E json \in CurrentJsons \cup {NoJson} :
        /\ current' = json
        /\ IF json = NoJson
           THEN /\ ReturnNull
                /\ UNCHANGED <<currentMoonRiseMinutes, currentMoonSetMinutes, fetches>>
           ELSE /\ currentMoonRiseMinutes' = getMinutes(json.moonrise)
                /\ currentMoonSetMinutes' = getMinutes(json.moonset)
                /\ fetches' = fetches + 1
                /\ pc' = "getPrevious"
                /\ UNCHANGED result
    /\ UNCHANGED <<pureVars, dataVars, batchVars, pairVars>>
    /\ UNCHANGED <<previous, next,
                   previousMoonRiseMinutes, previousMoonSetMinutes,
                   nextMoonRiseMinutes, nextMoonSetMinutes,
                   raster, bands, caseTaken, nowMinutes, segments, pending,
                   markers, ticks, encoded, saved, returned, largeMoon>>

\* the mutant: the raster is made while the next day's record is awaited
FetchPreviousThenRaster ==
    /\ pc = "getPrevious"
    /\ \E json \in NeighbourJsons \cup {NoJson} :
        /\ previous' = json
        /\ IF json = NoJson
           THEN /\ ReturnNull
                /\ UNCHANGED <<previousMoonRiseMinutes, previousMoonSetMinutes,
                               fetches, raster>>
           ELSE /\ previousMoonRiseMinutes' = getMinutes(json.moonrise)
                /\ previousMoonSetMinutes' = getMinutes(json.moonset)
                /\ fetches' = fetches + 1
                /\ raster' = TRUE
                /\ pc' = "getNext"
                /\ UNCHANGED result
    /\ UNCHANGED <<pureVars, dataVars, batchVars, pairVars>>
    /\ UNCHANGED <<current, next,
                   currentMoonRiseMinutes, currentMoonSetMinutes,
                   nextMoonRiseMinutes, nextMoonSetMinutes,
                   bands, caseTaken, nowMinutes, segments, pending,
                   markers, ticks, encoded, saved, returned, largeMoon>>

\* the previous day's getMoonData resolves
FetchPrevious ==
    /\ pc = "getPrevious"
    /\ \E json \in NeighbourJsons \cup {NoJson} :
        /\ previous' = json
        /\ IF json = NoJson
           THEN /\ ReturnNull
                /\ UNCHANGED <<previousMoonRiseMinutes, previousMoonSetMinutes, fetches>>
           ELSE /\ previousMoonRiseMinutes' = getMinutes(json.moonrise)
                /\ previousMoonSetMinutes' = getMinutes(json.moonset)
                /\ fetches' = fetches + 1
                /\ pc' = "getNext"
                /\ UNCHANGED result
    /\ UNCHANGED <<pureVars, dataVars, batchVars, pairVars>>
    /\ UNCHANGED <<current, next,
                   currentMoonRiseMinutes, currentMoonSetMinutes,
                   nextMoonRiseMinutes, nextMoonSetMinutes,
                   raster, bands, caseTaken, nowMinutes, segments, pending,
                   markers, ticks, encoded, saved, returned, largeMoon>>

\* getMinutes throws on the sunrise or sunset: getImage rejects, and the
\* catch of CreateImages takes over
GetImageThrows ==
    /\ result' = "throws"
    /\ pc' = "returned"

\* the next day's getMoonData resolves; the raster is made, the background
\* filled and, with a sunrise and a sunset, the plot shaded
FetchNext ==
    /\ pc = "getNext"
    /\ \E json \in NeighbourJsons \cup {NoJson} :
        /\ next' = json
        /\ IF json = NoJson
           THEN /\ ReturnNull
                /\ UNCHANGED <<nextMoonRiseMinutes, nextMoonSetMinutes, raster, bands>>
           ELSE /\ nextMoonRiseMinutes' = getMinutes(json.moonrise)
                /\ nextMoonSetMinutes' = getMinutes(json.moonset)
                /\ raster' = TRUE
                /\ IF getMinutesThrows(current.sunrise)
                   THEN GetImageThrows /\ UNCHANGED bands
                   ELSE IF getMinutesThrows(current.sunset)
                   THEN GetImageThrows /\ UNCHANGED bands
                   ELSE IF \/ getMinutes(current.sunrise) = Null
                           \/ getMinutes(current.sunset) = Null
                   THEN ReturnNull /\ UNCHANGED bands
                   ELSE /\ bands' = ShadingBands(getMinutes(current.sunrise),
                                                 getMinutes(current.sunset))
                        /\ pc' = "drawMoon"
                        /\ UNCHANGED result
    /\ UNCHANGED <<pureVars, dataVars, batchVars, pairVars>>
    /\ UNCHANGED <<current, previous,
                   currentMoonRiseMinutes, currentMoonSetMinutes,
                   previousMoonRiseMinutes, previousMoonSetMinutes,
                   fetches, caseTaken, nowMinutes, segments, pending,
                   markers, ticks, encoded, saved, returned, largeMoon>>

\* a case branch that returns null before drawing
CaseFails ==
    /\ ReturnNull
    /\ UNCHANGED <<nowMinutes, segments, pending, ticks, encoded>>

\* Cases 1, 2 and 4: one path over the whole day, then the marker is awaited
SinglePath(riseTime, setTime) ==
    \E now \in NowCandidates :
        /\ nowMinutes' = now
        /\ segments' = Append(segments, Segment(0, 1440, riseTime, setTime))
        /\ pending' = Marker(now, riseTime, setTime)
        /\ pc' = "moonOnPath"
        /\ UNCHANGED <<ticks, encoded, result>>

\* Case 3 from its second drawMoonPath on
SecondPath(now, riseTime, drawn) ==
    LET setTime == Case3SecondSetTime(nextMoonSetMinutes)
    IN  /\ segments' = Append(drawn, Segment(riseTime, 1440, riseTime, setTime))
        /\ IF MarkerOnSecond(now, riseTime)
           THEN /\ pending' = Marker(now, riseTime, setTime)
                /\ pc' = "moonOnPath"
                /\ UNCHANGED <<ticks, encoded, result>>
           ELSE /\ pending' = NoMarker
                /\ Finish

\* Case 3: the path before the rise, its marker if now is before the rise
TwoPaths(riseTime) ==
    \E now \in NowCandidates :
        LET setTime == Case3FirstSetTime(previousMoonSetMinutes)
            first   == Append(segments, Segment(0, riseTime, riseTime, setTime))
        IN  /\ nowMinutes' = now
            /\ IF MarkerOnFirst(now, riseTime)
               THEN /\ segments' = first
                    /\ pending' = Marker(now, riseTime, setTime)
                    /\ pc' = "moonOnPathFirst"
                    /\ UNCHANGED <<ticks, encoded, result>>
               ELSE SecondPath(now, riseTime, first)

\* drawMoon has drawn the large moon; the grid, then the case chain
DrawMoonDone ==
    /\ pc = "drawMoon"
    /\ \E loaded \in BOOLEAN : largeMoon' = DrawShape(loaded)
    /\ LET c == SelectCase(currentMoonRiseMinutes, currentMoonSetMinutes)
       IN  /\ caseTaken' = c
           /\ CASE c = "Case1" ->
                     SinglePath(currentMoonRiseMinutes, currentMoonSetMinutes)
                [] c = "Case2" ->
                     IF Case2Missing(previousMoonRiseMinutes)
                     THEN CaseFails
                     ELSE SinglePath(Case2RiseTime(previousMoonRiseMinutes),
                                     currentMoonSetMinutes)
                [] c = "Case3" ->
                     IF Case3Missing(previousMoonSetMinutes, nextMoonSetMinutes)
                     THEN CaseFails
                     ELSE TwoPaths(currentMoonRiseMinutes)
                [] c = "Case4" ->
                     IF Case4Missing(previousMoonRiseMinutes, nextMoonRiseMinutes)
                     THEN CaseFails
                     ELSE SinglePath(Case4RiseTime(previousMoonRiseMinutes),
                                     currentMoonSetMinutes)
                [] OTHER -> CaseFails
    /\ UNCHANGED <<pureVars, dataVars, batchVars, pairVars>>
    /\ UNCHANGED <<current, previous, next,
                   currentMoonRiseMinutes, currentMoonSetMinutes,
                   previousMoonRiseMinutes, previousMoonSetMinutes,
                   nextMoonRiseMinutes, nextMoonSetMinutes,
                   fetches, raster, bands, markers, saved, returned>>

\* Case 3: the first segment's marker is drawn; the second path follows
MoonOnPathFirstDone ==
    /\ pc = "moonOnPathFirst"
    /\ \E loaded \in BOOLEAN : markers' = Append(markers, DrawnMarker(pending, loaded))
    /\ SecondPath(nowMinutes, currentMoonRiseMinutes, segments)
    /\ UNCHANGED <<pureVars, dataVars, batchVars, pairVars>>
    /\ UNCHANGED <<current, previous, next,
                   currentMoonRiseMinutes, currentMoonSetMinutes,
                   previousMoonRiseMinutes, previousMoonSetMinutes,
                   nextMoonRiseMinutes, nextMoonSetMinutes,
                   fetches, raster, bands, caseTaken, nowMinutes, saved, returned, largeMoon>>

\* the marker is drawn; ticks, labels, encoding and return
MoonOnPathDone ==
    /\ pc = "moonOnPath"
    /\ \E loaded \in BOOLEAN : markers' = Append(markers, DrawnMarker(pending, loaded))
    /\ pending' = NoMarker
    /\ Finish
    /\ UNCHANGED <<pureVars, dataVars, batchVars, pairVars>>
    /\ UNCHANGED <<current, previous, next,
                   currentMoonRiseMinutes, currentMoonSetMinutes,
                   previousMoonRiseMinutes, previousMoonSetMinutes,
                   nextMoonRiseMinutes, nextMoonSetMinutes,
                   fetches, raster, bands, caseTaken, nowMinutes, segments,
                   saved, returned, largeMoon>>

\* CreateImages after getImage: save the image, or warn and return false
SaveOrWarn ==
    /\ pc = "returned"
    /\ IF result = "image"
       THEN /\ saved' = saved + 1
            /\ returned' = "true"
       ELSE /\ saved' = saved
            /\ returned' = "false"
    /\ pc' = "done"
    /\ UNCHANGED <<pureVars, dataVars, batchVars, pairVars>>
    /\ UNCHANGED <<current, previous, next,
                   currentMoonRiseMinutes, currentMoonSetMinutes,
                   previousMoonRiseMinutes, previousMoonSetMinutes,
                   nextMoonRiseMinutes, nextMoonSetMinutes,
                   fetches, raster, bands, caseTaken, nowMinutes, segments, pending,
                   markers, ticks, encoded, result, largeMoon>>

Next ==
    \/ CreateImages
    \/ FetchCurrent
    \/ FetchPrevious
    \/ FetchNext
    \/ DrawMoonDone
    \/ MoonOnPathFirstDone
    \/ MoonOnPathDone
    \/ SaveOrWarn

Spec == Init /\ [][Next]_allVars

NextPure ==
    \/ CallGetMinutes /\ UNCHANGED <<vars, dataVars, batchVars, pairVars>>
    \/ CallFormatTime /\ UNCHANGED <<vars, dataVars, batchVars, pairVars>>
    \/ CallGetMoonAgeDays /\ UNCHANGED <<vars, dataVars, batchVars, pairVars>>
    \/ CallGetMoonIllumination /\ UNCHANGED <<vars, dataVars, batchVars, pairVars>>
    \/ CallGetPhaseStr /\ UNCHANGED <<vars, dataVars, batchVars, pairVars>>
    \/ CallGetMoonImageForAge /\ UNCHANGED <<vars, dataVars, batchVars, pairVars>>
    \/ CallGetImageDates /\ UNCHANGED <<vars, dataVars, batchVars, pairVars>>
    \/ CallShadingBands /\ UNCHANGED <<vars, dataVars, batchVars, pairVars>>
    \/ ReturnPure /\ UNCHANGED <<vars, dataVars, batchVars, pairVars>>

SpecPure == Init /\ [][NextPure]_allVars

NextData ==
    \/ GetMoonData /\ UNCHANGED <<vars, pureVars, batchVars, pairVars>>
    \/ Resolved /\ UNCHANGED <<vars, pureVars, batchVars, pairVars>>
    \/ Rejected /\ UNCHANGED <<vars, pureVars, batchVars, pairVars>>
    \/ ReturnData /\ UNCHANGED <<vars, pureVars, batchVars, pairVars>>
    \/ Tick /\ UNCHANGED <<vars, pureVars, batchVars, pairVars>>

SpecData == Init /\ [][NextData]_allVars

NextBatch ==
    \/ RunStatement /\ UNCHANGED <<vars, pureVars, dataVars, pairVars>>
    \/ GetImageSettles /\ UNCHANGED <<vars, pureVars, dataVars, pairVars>>
    \/ RunDone /\ UNCHANGED <<vars, pureVars, dataVars, pairVars>>

SpecBatch == Init /\ [][NextBatch]_allVars

SpecPair == Init /\ [][NextPair]_allVars

----------------------------------------------------------------------------
(* Properties *)

Drawn == pc \in {"moonOnPath", "returned", "done"}

SunPresent ==
    /\ ~current.isNull
    /\ getMinutes(current.sunrise) # Null
    /\ getMinutes(current.sunset) # Null

\* C1: whenever the case chain runs on a day with a moonrise or a moonset
\* (the two possibly equal), exactly one of the four case conditions holds
\* and the failure branch is not entered.
C1_ExactlyOneCase ==
    (caseTaken # "unset" /\ (currentMoonRiseMinutes # Null \/ currentMoonSetMinutes # Null))
        => /\ caseTaken \in {"Case1", "Case2", "Case3", "Case4"}
           /\ Cardinality({i \in 1..4 :
                  \/ i = 1 /\ Case1Cond(currentMoonRiseMinutes, currentMoonSetMinutes)
                  \/ i = 2 /\ Case2Cond(currentMoonRiseMinutes, currentMoonSetMinutes)
                  \/ i = 3 /\ Case3Cond(currentMoonRiseMinutes, currentMoonSetMinutes)
                  \/ i = 4 /\ Case4Cond(currentMoonRiseMinutes, currentMoonSetMinutes)}) = 1

\* C2: a target day with neither moonrise nor moonset never has a path or a
\* marker drawn, is never encoded or saved; getImage returns null and
\* CreateImages returns false.
C2_NeitherFails ==
    (~current.isNull /\ currentMoonRiseMinutes = Null /\ currentMoonSetMinutes = Null)
        => /\ segments = <<>>
           /\ markers = <<>>
           /\ pending = NoMarker
           /\ ~encoded
           /\ result # "image"
           /\ saved = 0
           /\ (caseTaken # "unset" => caseTaken = "fail" /\ result = "null")
           /\ (pc = "done" => returned = "false")

C2_Witness ==
    /\ pc = "done"
    /\ caseTaken = "fail"
    /\ currentMoonRiseMinutes = Null
    /\ currentMoonSetMinutes = Null
    /\ returned = "false"

\* C3: every path drawn by a successful render is zero at its own riseTime
\* and at its own setTime.
C3_ZeroAtRiseAndSet ==
    result = "image" =>
        \A i \in 1..Len(segments) :
            /\ CurveIsZero(segments[i].riseTime, segments[i].moonPeak2, segments[i].xOffset2)
            /\ CurveIsZero(segments[i].setTime, segments[i].moonPeak2, segments[i].xOffset2)

\* C4: in Case 1 exactly one path is drawn, over 0..1440, from the current
\* day's rise and set, and its peak is (rise + set)/2.
C4_CaseA ==
    caseTaken = "Case1" =>
        /\ Drawn
        /\ Len(segments) = 1
        /\ segments[1].startX = 0
        /\ segments[1].endX = 1440
        /\ segments[1].riseTime = currentMoonRiseMinutes
        /\ segments[1].setTime = currentMoonSetMinutes
        /\ segments[1].moonPeak2 = currentMoonRiseMinutes + currentMoonSetMinutes
        /\ (pc = "done" => result = "image")

C4_Witness ==
    /\ caseTaken = "Case1"
    /\ result = "image"
    /\ Len(segments) = 1

\* C5: in Case 2 with the previous day's moonrise present exactly one path
\* is drawn, over 0..1440, with riseTime = previous rise - 1440 + 50 and
\* setTime = the current day's moonset, and getImage returns an image.
C5_CaseB ==
    (caseTaken = "Case2" /\ previousMoonRiseMinutes # Null) =>
        /\ Drawn
        /\ Len(segments) = 1
        /\ segments[1].startX = 0
        /\ segments[1].endX = 1440
        /\ segments[1].riseTime = previousMoonRiseMinutes - 1440 + case2FudgeFactor
        /\ segments[1].setTime = currentMoonSetMinutes
        /\ result # "null"
        /\ (pc = "done" => result = "image" /\ returned = "true")

C5_Witness ==
    /\ caseTaken = "Case2"
    /\ previousMoonRiseMinutes # Null
    /\ result = "image"
    /\ pc = "done"

\* C6: in Case 3 with the previous and the next day's moonset present, two
\* paths are drawn, [0, rise] solved from (rise, previous set - 1440) and
\* [rise, 1440] solved from (rise, 1440 + next set).
C6_CaseC ==
    (caseTaken = "Case3" /\ previousMoonSetMinutes # Null /\ nextMoonSetMinutes # Null
        /\ Drawn) =>
        /\ Len(segments) = 2
        /\ segments[1].startX = 0
        /\ segments[1].endX = currentMoonRiseMinutes
        /\ segments[1].riseTime = currentMoonRiseMinutes
        /\ segments[1].setTime = previousMoonSetMinutes - 1440
        /\ segments[1].moonPeak2 =
               2 * currentMoonRiseMinutes
                   + Abs((previousMoonSetMinutes - 1440) - currentMoonRiseMinutes)
        /\ segments[2].startX = segments[1].endX
        /\ segments[2].endX = 1440
        /\ segments[2].riseTime = currentMoonRiseMinutes
        /\ segments[2].setTime = 1440 + nextMoonSetMinutes
        /\ segments[2].moonPeak2 =
               2 * currentMoonRiseMinutes
                   + Abs((1440 + nextMoonSetMinutes) - currentMoonRiseMinutes)

C6_Witness ==
    /\ caseTaken = "Case3"
    /\ result = "image"
    /\ Len(segments) = 2
    /\ segments[1].setTime < 0
    /\ segments[2].setTime > 1440

\* C7: in Case 4 (with the previous day's moonrise present) exactly one
\* path is drawn, with setTime = the current day's moonset and riseTime =
\* previous rise - 1440 + a correction smaller than that of Case 2.
C7_CaseD ==
    (pc = "done" /\ caseTaken = "Case4" /\ previousMoonRiseMinutes # Null) =>
        /\ Len(segments) = 1
        /\ segments[1].setTime = currentMoonSetMinutes
        /\ \E correction \in 0..(case2FudgeFactor - 1) :
               segments[1].riseTime = previousMoonRiseMinutes - 1440 + correction

\* C8: once the target day's record with its sunrise and sunset is there,
\* a render fails only for a neighbouring-day value its case needs:
\* Case 1 none, Case 2 the previous rise, Case 3 the previous and the next
\* set, Case 4 the previous rise.
C8_OnlyNeededNeighbour ==
    (pc = "done" /\ SunPresent /\ result = "null") =>
        LET c == SelectCase(currentMoonRiseMinutes, currentMoonSetMinutes)
        IN  \/ c = "fail"
            \/ c = "Case2" /\ previousMoonRiseMinutes = Null
            \/ c = "Case3" /\ (previousMoonSetMinutes = Null \/ nextMoonSetMinutes = Null)
            \/ c = "Case4" /\ previousMoonRiseMinutes = Null

NeededMissing ==
    \/ caseTaken = "Case2" /\ previousMoonRiseMinutes = Null
    \/ caseTaken = "Case3" /\ (previousMoonSetMinutes = Null \/ nextMoonSetMinutes = Null)
    \/ caseTaken = "Case4" /\ previousMoonRiseMinutes = Null

\* C9: when the case entered lacks the neighbouring-day value it needs,
\* getImage returns null with no path and no marker drawn, nothing encoded
\* or saved, and no getMoonData call beyond the three already made.
C9_MissingNeighbourFails ==
    NeededMissing =>
        /\ pc \in {"returned", "done"}
        /\ result = "null"
        /\ segments = <<>>
        /\ markers = <<>>
        /\ pending = NoMarker
        /\ ~encoded
        /\ saved = 0
        /\ fetches = 3
        /\ (pc = "done" => returned = "false")

C9_Witness ==
    /\ NeededMissing
    /\ pc = "done"
    /\ returned = "false"

\* C10: a successful render has drawn exactly one marker, at the current
\* minute; in Case 3 with the parameters of the first path when
\* now <= rise and of the second path when now > rise.
C10_OneMarker ==
    result = "image" =>
        /\ Len(markers) = 1
        /\ pending = NoMarker
        /\ markers[1].time = nowMinutes
        /\ caseTaken = "Case3" =>
              LET seg == IF nowMinutes <= currentMoonRiseMinutes
                         THEN segments[1] ELSE segments[2]
              IN  /\ Len(segments) = 2
                  /\ markers[1].riseTime = seg.riseTime
                  /\ markers[1].setTime = seg.setTime
                  /\ markers[1].moonPeak2 = seg.moonPeak2
                  /\ markers[1].xOffset2 = seg.xOffset2
        /\ caseTaken # "Case3" =>
              /\ Len(segments) = 1
              /\ markers[1].riseTime = segments[1].riseTime
              /\ markers[1].setTime = segments[1].setTime

C10_Witness ==
    /\ result = "image"
    /\ caseTaken = "Case3"
    /\ nowMinutes > currentMoonRiseMinutes
    /\ Len(markers) = 1
    /\ markers[1].setTime = segments[2].setTime

\* C11: getMinutes of a well-formed "HH:MM" is hour*60 + minute, and on
\* these strings it is one-to-one and onto 0..1439.
C11_MinutesBijection ==
    (fn.op = "getMinutes" /\ fn.in \in WellFormedTimeStrs) =>
        /\ ~fn.threw
        /\ fn.out = fn.in[1].val * 60 + fn.in[2].val
        /\ \A other \in WellFormedTimeStrs :
               getMinutes(other) = fn.out => other = fn.in
        /\ {getMinutes(timeStr) : timeStr \in WellFormedTimeStrs} = 0..1439

C11_Witness ==
    /\ fn.op = "getMinutes"
    /\ fn.in = HM(23, 59)
    /\ fn.out = 1439

\* C12: getMinutes of anything that is no in-range "HH:MM" does not throw
\* and returns null.
C12_MalformedIsAbsent ==
    (fn.op = "getMinutes" /\ fn.in \notin WellFormedTimeStrs) =>
        /\ ~fn.threw
        /\ fn.out = Null

\* C13: the label of an event at minute m is hour 12 for m \div 60 a
\* multiple of 12 and (m \div 60) mod 12 otherwise, the minute as two
\* digits, and PM exactly from 12:00 on; it is never empty.
C13_Label ==
    fn.op = "label" =>
        LET h == fn.in \div 60
            m == fn.in % 60
        IN  /\ fn.out # EmptyLabel
            /\ fn.out.hour = (IF h % 12 = 0 THEN 12 ELSE h % 12)
            /\ fn.out.hour \in 1..12
            /\ fn.out.minStr = <<m \div 10, m % 10>>
            /\ fn.out.amPm = (IF h >= 12 THEN "PM" ELSE "AM")

C13_Witness ==
    /\ fn.op = "label"
    /\ fn.in = 12 * 60 + 5
    /\ fn.out = [hour |-> 12, minStr |-> <<0, 5>>, amPm |-> "PM"]

\* C14: the age getMoonAgeDays returns lies in [0, period), for dates
\* before the lunar reference too, where the remainder is negative and is
\* raised by one period.
C14_AgeInPeriod ==
    fn.op = "getMoonAgeDays" =>
        LET remainder == JsRemainder(JulianSinceReference(fn.in[1], fn.in[2]),
                                     MOON_PERIOD_DAYS)
        IN  /\ ~IsNegative(fn.out)
            /\ LessThan(fn.out, MOON_PERIOD_DAYS)
            /\ IsNegative(remainder) => fn.out = Plus(remainder, MOON_PERIOD_DAYS)

\* C15: the illumination of an age in [0, period) is a whole percent in
\* 0..100, 0 at age 0 and 100 at half the period, not falling up to half
\* the period and not rising after it.
C15_Illumination ==
    fn.op = "getMoonIllumination" =>
        /\ fn.out.unit = "%"
        /\ fn.out.digits \in 0..100
        /\ (fn.in = 0 => fn.out.digits = 0)
        /\ (fn.in = AgeSteps \div 2 => fn.out.digits = 100)
        /\ (fn.in < AgeSteps \div 2 =>
               fn.out.digits <= getMoonIllumination(fn.in + 1).digits)
        /\ (fn.in >= AgeSteps \div 2 /\ fn.in + 1 \in Ages =>
               fn.out.digits >= getMoonIllumination(fn.in + 1).digits)

C15_Witness ==
    /\ fn.op = "getMoonIllumination"
    /\ fn.in = AgeSteps \div 2
    /\ fn.out = [digits |-> 100, unit |-> "%"]

\* the phase names in the order of the claim, for the buckets 0, 1-2,
\* 3-4, ... 13-14, 15
PhaseNames ==
    <<"New Moon", "Waxing Crescent", "First Quarter", "Waxing Gibbous", "Full Moon",
      "Waning Gibbous", "Last Quarter", "Waning Crescent", "New Moon">>

\* the phase a name or an icon file stands for, 0 when for none
PhaseOfName(name) ==
    CASE name = "New Moon" -> 1
      [] name = "Waxing Crescent" -> 2
      [] name = "First Quarter" -> 3
      [] name = "Waxing Gibbous" -> 4
      [] name = "Full Moon" -> 5
      [] name \in {"Waning Gibbous", "Waning Gibbus"} -> 6
      [] name = "Last Quarter" -> 7
      [] name = "Waning Crescent" -> 8
      [] OTHER -> 0

PhaseOfIcon(file) ==
    CASE file = "new-moon.png" -> 1
      [] file = "waxing-crescent.png" -> 2
      [] file = "first-quarter.png" -> 3
      [] file \in {"waxing-gibbous.png", "waxing-gibbous"} -> 4
      [] file = "full-moon.png" -> 5
      [] file = "waning-gibbous.png" -> 6
      [] file = "last-quarter.png" -> 7
      [] file = "waning-crescent.png" -> 8
      [] OTHER -> 0

\* the icon files, all PNG images
IconFiles ==
    {"new-moon.png", "waxing-crescent.png", "first-quarter.png", "waxing-gibbous.png",
     "full-moon.png", "waning-gibbous.png", "last-quarter.png", "waning-crescent.png"}

\* C16: getPhaseStr names the bucket of the age: New Moon for buckets 0
\* and 15, then two buckets each for Waxing Crescent, First Quarter, Waxing
\* Gibbous, Full Moon, Waning Gibbous, Last Quarter, Waning Crescent.
C16_PhaseNames ==
    fn.op = "getPhaseStr" =>
        LET bucket == fn.in \div phaseLength
        IN  fn.out = PhaseNames[(bucket + 1) \div 2 + 1]

\* C17: the icon of an age is a loadable icon file and stands for the
\* phase that getPhaseStr names for that age.
C17_IconMatchesName ==
    fn.op = "getMoonImageForAge" =>
        /\ fn.out \in IconFiles
        /\ PhaseOfIcon(fn.out) = PhaseOfName(getPhaseStr(fn.in))

\* C18: a phase icon that cannot be loaded is replaced by a filled circle,
\* in drawMoon and in drawMoonOnPath alike: every moon drawn is the icon or
\* the circle, and getImage goes on to return an image.
C18_FallbackCircle ==
    /\ \A i \in DOMAIN markers : markers[i].shape \in {"icon", "circle"}
    /\ pc \in {"moonOnPathFirst", "moonOnPath"} => largeMoon \in {"icon", "circle"}
    /\ (pc \in {"returned", "done"} /\ markers # <<>>) =>
          /\ largeMoon \in {"icon", "circle"}
          /\ result = "image"

C18_Witness ==
    /\ pc = "done"
    /\ result = "image"
    /\ returned = "true"
    /\ largeMoon = "circle"
    /\ Len(markers) = 1
    /\ markers[1].shape = "circle"

\* C19: in a successful render the marker is centred on the curve point of
\* the current minute: x at the pixel drawMoonPath plots that minute at, y
\* on the curve of the path that covers the minute, for icon and circle.
C19_MarkerOnCurve ==
    result = "image" =>
        \A i \in DOMAIN markers :
            /\ markers[i].time = nowMinutes
            /\ markers[i].x4 = PathX4(nowMinutes)
            /\ \E j \in DOMAIN segments :
                  /\ segments[j].startX <= nowMinutes
                  /\ nowMinutes <= segments[j].endX
                  /\ segments[j].moonPeak2 = markers[i].moonPeak2
                  /\ segments[j].xOffset2 = markers[i].xOffset2

\* C20: a getMoonData call reads the cache under the key of its (lat, lon,
\* date) before any request to the service; when the cache holds an
\* unexpired entry under that key, the call returns that record and makes
\* no request.
C20_CacheFirst ==
    /\ [](\A i \in DOMAIN md.events :
             md.events[i] = "axios.get" => (i > 1 /\ md.events[1] = "cache.get"))
    /\ [][(md.pc = "idle" /\ md'.pc # "idle") =>
             /\ md'.events[1] = "cache.get"
             /\ \E lat \in Lats, lon \in Lons :
                   md'.key = CacheKey(lat, lon, md'.dateStr)
             /\ (~cache[md'.key].item.isNull /\ cache[md'.key].expiration > clock) =>
                   /\ md'.pc = "returned"
                   /\ md'.out = cache[md'.key].item
                   /\ md'.events = <<"cache.get">>]_allVars

C20_Witness ==
    /\ md.pc = "returned"
    /\ md.events = <<"cache.get">>
    /\ ~md.out.isNull
    /\ md.out = cache[md.key].item
    /\ cache[md.key].expiration > clock

\* the record of a response with its four lunar fields filled in
HasLunarFields(item, dateStr) ==
    /\ {"lunarAgeDays", "lunarIllumination", "lunarWaxWane", "lunarPhase"}
          \subseteq DOMAIN item
    /\ \E data \in ResponseData, offsetMinutes \in HostOffsets :
          IsObject(data) /\ item = FillLunar(data, dateStr, offsetMinutes)

\* C21: the cache is written only by a call whose request was answered,
\* with the answered record, its lunar fields filled in, under the key of
\* the call and expiring at the end of the current day of the target time
\* zone; a call whose request fails returns null and leaves the cache as
\* it was.
C21_CacheWrite ==
    /\ [][cache' # cache =>
             /\ md.pc = "awaiting"
             /\ md'.pc = "returned"
             /\ md'.events[Len(md.events) + 1] = ".then"
             /\ \A key \in Keys : key # md.key => cache'[key] = cache[key]
             /\ cache'[md.key].item = md'.out
             /\ HasLunarFields(cache'[md.key].item, md.dateStr)
             /\ cache'[md.key].expiration = EndOfDay(clock, md.timeZone)]_allVars
    /\ [][(md.pc = "awaiting" /\ md'.pc = "returned"
              /\ md'.events[Len(md.events) + 1] = ".catch") =>
             /\ md'.out.isNull
             /\ cache' = cache]_allVars

\* C22: a render of the batch that fails keeps no later render from being
\* attempted: when run() is over, CreateImages was called for every target.
C22_EveryTargetAttempted ==
    run.pc = "done" =>
        /\ Len(run.outcomes) = BatchSize
        /\ \A i \in DOMAIN run.outcomes : run.outcomes[i].called

\* C23: no exception leaves CreateImages; it returns true exactly when
\* getImage gave a result with image data and the one saveFile call did
\* not throw, and false on every failure or throw in getImage or saveFile.
C23_CreateImagesResult ==
    \A i \in DOMAIN run.outcomes :
        LET o == run.outcomes[i]
        IN  o.called =>
              /\ o.returned \in {"true", "false"}
              /\ o.returned = "true" <=> (o.result = "image" /\ o.saveFileCalls = 1
                                            /\ ~o.saveFileThrows)
              /\ (o.result # "image" => o.saveFileCalls = 0)

C23_Witness ==
    /\ Len(run.outcomes) >= 2
    /\ run.outcomes[1].returned = "true"
    /\ run.outcomes[2].result = "image"
    /\ run.outcomes[2].saveFileThrows
    /\ run.outcomes[2].returned = "false"

\* something has been drawn on the raster or encoded
AnythingDrawn ==
    \/ largeMoon # "none"
    \/ segments # <<>>
    \/ markers # <<>>
    \/ pending # NoMarker
    \/ ticks # {}
    \/ encoded

\* C24: within a getImage call the raster is made, and anything drawn,
\* only after the fetches of the target, the previous and the next day
\* have all completed with a record; a fetch that fails ends the call with
\* null, nothing drawn, and no fetch issued after it or again.
C24_FetchesBeforeDrawing ==
    /\ fetches \in 0..3
    /\ (raster \/ AnythingDrawn) =>
          /\ fetches = 3
          /\ ~current.isNull /\ ~previous.isNull /\ ~next.isNull
          /\ pc \notin {"idle", "getCurrent", "getPrevious", "getNext"}
    /\ (pc \in {"returned", "done"}
           /\ (current.isNull \/ previous.isNull \/ next.isNull)) =>
          /\ result = "null"
          /\ ~raster
          /\ ~AnythingDrawn
          /\ fetches = (IF current.isNull THEN 1 ELSE IF previous.isNull THEN 2 ELSE 3)

C24_Witness ==
    /\ pc = "returned"
    /\ ~current.isNull
    /\ ~previous.isNull
    /\ next.isNull
    /\ fetches = 3
    /\ result = "null"
    /\ ~raster

\* C25: the three records getImage asks for are those of the target date
\* D (the given one, or today in the target zone), of the day before D
\* and of the day after D, for every host zone and target zone.
C25_ThreeDays ==
    fn.op = "getImageDates" =>
        LET date == IF fn.in[1] = NoDateStr
                    THEN (fn.in[2] + fn.in[4]) \div MIN_PER_DAY
                    ELSE fn.in[1]
        IN  fn.out = <<date, date - 1, date + 1>>

\* C27: the peak of every path drawn, and of every marker placed, is the
\* midpoint in time of its riseTime and setTime (twice the peak is their
\* sum), also where setTime is earlier than riseTime.
C27_PeakIsMidpoint ==
    /\ \A i \in DOMAIN segments :
          segments[i].moonPeak2 = segments[i].riseTime + segments[i].setTime
    /\ \A i \in DOMAIN markers :
          markers[i].moonPeak2 = markers[i].riseTime + markers[i].setTime

\* C28: a successful render has a tick with its time label at the moonrise
\* of the current day exactly when there is one, and at its moonset
\* exactly when there is one, each minute*moonPlotWidth/1440 pixels right
\* of the plot's left edge, and no other tick; a failed render has none.
C28_TicksAtCurrentEvents ==
    /\ result = "image" =>
          /\ {t.minute : t \in ticks}
                = {currentMoonRiseMinutes, currentMoonSetMinutes} \ {Null}
          /\ \A t \in ticks :
                /\ t.x4 - 4 * moonPlotX = (4 * t.minute * moonPlotWidth) \div 1440
                /\ t.label # EmptyLabel
                /\ t.label.hour % 12 = (t.minute \div 60) % 12
                /\ t.label.minStr = <<(t.minute % 60) \div 10, (t.minute % 60) % 10>>
    /\ result # "image" => ticks = {}

C28_Witness ==
    /\ result = "image"
    /\ caseTaken = "Case4"
    /\ currentMoonRiseMinutes = Null
    /\ previousMoonRiseMinutes # Null
    /\ Cardinality(ticks) = 1
    /\ \E t \in ticks : t.minute = currentMoonSetMinutes

\* C29: for every sunrise and sunset minute of the day, the three shading
\* bands have non-negative widths, start at the plot's left edge, follow
\* one another without gap or overlap, and their widths sum to the plot
\* width.
C29_ShadingBands ==
    fn.op = "shadingBands" =>
        /\ \A i \in 1..3 : fn.out[i].w4 >= 0
        /\ fn.out[1].x4 = 4 * moonPlotX
        /\ fn.out[2].x4 = fn.out[1].x4 + fn.out[1].w4
        /\ fn.out[3].x4 = fn.out[2].x4 + fn.out[2].w4
        /\ fn.out[1].w4 + fn.out[2].w4 + fn.out[3].w4 = 4 * moonPlotWidth

\* C30: when the target day's sunrise or sunset is absent or no in-range
\* HH:MM, getImage returns null with no band shaded, no path, marker or
\* tick drawn, nothing encoded and nothing written, whatever the moon
\* times are.
C30_SunGuard ==
    (/\ pc \in {"returned", "done"}
     /\ ~current.isNull /\ ~previous.isNull /\ ~next.isNull
     /\ \/ current.sunrise \notin WellFormedTimeStrs
        \/ current.sunset \notin WellFormedTimeStrs)
    => /\ result = "null"
       /\ bands = <<>>
       /\ ~AnythingDrawn
       /\ saved = 0

\* C26: of two CreateImages calls for different targets that interleave
\* at their awaits, each one's outcome (result of getImage, case, paths
\* with their resolved rise and set times, marker, what CreateImages
\* returns and saves) is the outcome it has alone against the same service
\* and clock reading, cache hits on the other call's records included.
C26_CallsIsolated ==
    pair.pc = "running" =>
        \A id \in CallIds :
            LET call == pair.calls[id]
                alone == AloneOutcome(call.target, pair.failing, call.now)
            IN  /\ call.pc \in {"returned", "done"} => call.outcome = alone
                /\ call.pc = "done" =>
                      /\ call.saved = SaveFileCalls(alone.result)
                      /\ call.returned = CreateImagesReturns(alone.result, FALSE)

\* both calls are done with an image, each after a cache hit on a record
\* the other one stored, and their outcomes differ
C26_Witness ==
    /\ pair.pc = "running"
    /\ \A id \in CallIds :
          /\ pair.calls[id].pc = "done"
          /\ pair.calls[id].hits > 0
          /\ pair.calls[id].outcome.result = "image"
    /\ pair.calls[1].outcome # pair.calls[2].outcome

====
